---- MODULE Spec2Model ----
(***************************************************************************)
(* A model of the PicBest indexer (src/index_photos.py): the SQLite tables *)
(* photos, embeddings, faces, photo_persons and clusters, the batch stages *)
(* that fill them, and the clustering run cluster_photos with its identity *)
(* refinement refine_clusters_by_faces.                                    *)
(*                                                                         *)
(* Abstractions: a CLIP embedding is represented by the pairs of photos    *)
(* whose cosine distance is at most DBSCAN_EPS (the relation near); the    *)
(* faces table by the set of photos that own a face row; a person by a     *)
(* small integer.  SQL NULL is the value NULL, which sorts before every    *)
(* timestamp, as SQLite sorts it.                                          *)
(***************************************************************************)
EXTENDS Integers, Sequences, FiniteSets, TLC

\* ---------------------------------------------------------------- bounds
MaxPhotos == 2
MaxTime == 1
MaxWidth == 2
MaxHeight == 1
MaxPersons == 2
MaxClusterSeq == 4
MaxRefinePhotos == 4
MaxLabel == 1
MaxDupPhotos == 3
MaxTwinPhotos == 3
MaxFaces == 3
MaxFacePhotos == 2
MaxBox == 2
MaxPersonSeq == 4
MaxItems == 3
MaxFaceCount == 2
MaxServerPhotos == 2
MaxServerClusters == 2
MaxExportPhotos == 2
MaxFolder == 2
MaxName == 2
MaxSize == 2
MaxExports == 2
MaxScanPhotos == 3
MaxScanRuns == 3
HashBits == 12

\* ------------------------------------------------------ program constants
DBSCAN_MIN_SAMPLES == 1
NOISE == -1
NULL == 0
DHASH_THRESHOLD == 10
batch_size == 32
MinRating == 0
MaxRating == 5

VARIABLES
    photos,         \* table photos: row id -> the columns the clustering reads and writes
    embeddings,     \* table embeddings: the photo ids that have a row
    near,           \* {p, q}: the embeddings of p and q are within DBSCAN_EPS
    faces,          \* table faces: the photo ids that own at least one face row
    photo_persons,  \* table photo_persons: photo id -> set of person ids
    clusters,       \* table clusters: set of rows [id, photo_count, representative_photo_id]
    cluster_seq,    \* sqlite_sequence of clusters (AUTOINCREMENT: ids are never reused)
    run,            \* locals of the cluster_photos call that has just returned
    refine,         \* a stand-alone call of refine_clusters_by_faces: arguments and result
    txn,            \* the open transaction of a cluster_photos call in progress
    dup,            \* a stand-alone call of find_near_duplicates: the rows read and the result
    twin,           \* two clustering runs over the same photos with different timestamps
    person_run,     \* a stand-alone call of cluster_persons: the faces rows and the result
    batch,          \* a feature-extraction stage in progress, item by item
    http,           \* the web server: the last request and its response
    export,         \* the web server: export_jobs, the copy task and the destination folder
    scan            \* the photos that detect_faces has scanned without an error

vars == <<photos, embeddings, near, faces, photo_persons, clusters, cluster_seq, run, refine,
          txn, dup, twin, person_run, batch, http, export, scan>>

srv == <<http, export, scan>>

aux == <<txn, dup, twin, person_run, batch, srv>>

db == <<photos, embeddings, near, faces, photo_persons, clusters, cluster_seq>>

\* ---------------------------------------------------------------- helpers
Times == {NULL} \cup (1..MaxTime)
Persons == 1..MaxPersons
PhotoIds == 1..Len(photos)

Range(s) == {s[i] : i \in DOMAIN s}

Max(S) == CHOOSE x \in S : \A y \in S : y <= x

\* photo_ids.index(pid): the first position holding pid
IndexOf(s, x) == CHOOSE i \in DOMAIN s : s[i] = x /\ \A j \in DOMAIN s : s[j] = x => i <= j

\* ------------------------------------------------- cluster_photos: loading
\* ORDER BY p.taken_at, p.id (NULL timestamps first)
RowBefore(ph, p, q) ==
    \/ ph[p].taken_at < ph[q].taken_at
    \/ ph[p].taken_at = ph[q].taken_at /\ p < q

\* the ids of S in the order of ORDER BY p.taken_at, p.id
RECURSIVE SortedRows(_, _)
SortedRows(ph, S) ==
    IF S = {} THEN <<>>
    ELSE LET first == CHOOSE p \in S : \A q \in S \ {p} : RowBefore(ph, p, q)
         IN  <<first>> \o SortedRows(ph, S \ {first})

LoadRows_LeftJoin(ph, emb) == SortedRows(ph, DOMAIN ph)

\* the rows of the query: the photos that have an embeddings row, in that order
LoadRows(ph, emb) == SortedRows(ph, DOMAIN ph \cap emb)

\* ------------------------------------------- sklearn.cluster.DBSCAN(...).fit
\* the eps-neighbourhood of the point at position i (a point is its own neighbour)
Neighborhood(photo_ids, nr, i) ==
    {j \in DOMAIN photo_ids : j = i \/ {photo_ids[i], photo_ids[j]} \in nr}

IsCore(photo_ids, nr, i) ==
    Cardinality(Neighborhood(photo_ids, nr, i)) >= DBSCAN_MIN_SAMPLES

\* the unlabelled points reached from S by stepping through core points
RECURSIVE Expand(_, _, _, _)
Expand(photo_ids, nr, labels, S) ==
    LET more == {v \in DOMAIN photo_ids :
                    /\ labels[v] = NOISE
                    /\ \E u \in S : IsCore(photo_ids, nr, u)
                                    /\ v \in Neighborhood(photo_ids, nr, u)}
    IN  IF more \subseteq S THEN S ELSE Expand(photo_ids, nr, labels, S \cup more)

RECURSIVE DbscanInner(_, _, _, _, _)
DbscanInner(photo_ids, nr, labels, i, label_num) ==
    IF i > Len(photo_ids) THEN labels
    ELSE IF labels[i] # NOISE \/ ~IsCore(photo_ids, nr, i)
         THEN DbscanInner(photo_ids, nr, labels, i + 1, label_num)
         ELSE LET C == Expand(photo_ids, nr, labels, {i})
              IN  DbscanInner(photo_ids, nr,
                              [j \in DOMAIN labels |-> IF j \in C THEN label_num ELSE labels[j]],
                              i + 1, label_num + 1)

DBSCAN(photo_ids, nr) ==
    DbscanInner(photo_ids, nr, [i \in DOMAIN photo_ids |-> NOISE], 1, 0)

\* ------------------------------------------------ refine_clusters_by_faces
\* the keys of cluster_photos_map, in insertion order
RECURSIVE ClusterLabels(_, _)
ClusterLabels(labels, seen) ==
    IF labels = <<>> THEN <<>>
    ELSE IF Head(labels) = NOISE \/ Head(labels) \in seen
         THEN ClusterLabels(Tail(labels), seen)
         ELSE <<Head(labels)>> \o ClusterLabels(Tail(labels), seen \cup {Head(labels)})

\* cluster_photos_map[label]
RECURSIVE ClusterMembers(_, _, _)
ClusterMembers(photo_ids, labels, label) ==
    IF photo_ids = <<>> THEN <<>>
    ELSE IF Head(labels) = label
         THEN <<Head(photo_ids)>> \o ClusterMembers(Tail(photo_ids), Tail(labels), label)
         ELSE ClusterMembers(Tail(photo_ids), Tail(labels), label)

\* photo_persons.get(pid, set())
PersonSet(pp, pid) == IF pid \in DOMAIN pp THEN pp[pid] ELSE {}

\* the keys of set_groups, in insertion order
RECURSIVE SetGroupKeys(_, _, _)
SetGroupKeys(members, pp, seen) ==
    IF members = <<>> THEN <<>>
    ELSE LET key == PersonSet(pp, Head(members))
         IN  IF key \in seen THEN SetGroupKeys(Tail(members), pp, seen)
             ELSE <<key>> \o SetGroupKeys(Tail(members), pp, seen \cup {key})

\* set_groups[key]
RECURSIVE SetGroup(_, _, _)
SetGroup(members, pp, key) ==
    IF members = <<>> THEN <<>>
    ELSE IF PersonSet(pp, Head(members)) = key
         THEN <<Head(members)>> \o SetGroup(Tail(members), pp, key)
         ELSE SetGroup(Tail(members), pp, key)

LargestSet_LastMax(members, pp) ==
    LET keys == SetGroupKeys(members, pp, {})
        size(i) == Len(SetGroup(members, pp, keys[i]))
        best == CHOOSE i \in DOMAIN keys :
                    /\ \A j \in DOMAIN keys : size(j) <= size(i)
                    /\ \A j \in DOMAIN keys : size(j) = size(i) => j <= i
    IN  keys[best]

\* max(set_groups.values(), key=len), then the first key holding that group
LargestSet(members, pp) ==
    LET keys == SetGroupKeys(members, pp, {})
        size(i) == Len(SetGroup(members, pp, keys[i]))
        best == CHOOSE i \in DOMAIN keys :
                    /\ \A j \in DOMAIN keys : size(j) <= size(i)
                    /\ \A j \in DOMAIN keys : size(j) = size(i) => i <= j
    IN  keys[best]

CanMerge_Always(person_set, largest_set) == TRUE

CanMerge_SubsetOnly(person_set, largest_set) ==
    /\ person_set # {}
    /\ largest_set # {}
    /\ person_set \subseteq largest_set

\* "if person_set and largest_set: if person_set.issubset(largest_set) or ..."
CanMerge(person_set, largest_set) ==
    /\ person_set # {}
    /\ largest_set # {}
    /\ (person_set \subseteq largest_set \/ largest_set \subseteq person_set)

\* "next_label = max(labels) + 1"
FirstNewLabel_NoStep(labels) == Max(Range(labels))

FirstNewLabel(labels) == Max(Range(labels)) + 1

\* "next_label += 1"
NextLabel_Same(next_label) == next_label

NextLabel(next_label) == next_label + 1

\* "for pid in group_photos: idx = photo_ids.index(pid); new_labels[idx] = next_label"
Relabel(photo_ids, new_labels, group_photos, next_label) ==
    [i \in DOMAIN new_labels |->
        IF \E k \in DOMAIN group_photos : IndexOf(photo_ids, group_photos[k]) = i
        THEN next_label ELSE new_labels[i]]

\* the loop "for person_set, group_photos in set_groups.items()", from key k on;
\* st carries new_labels and next_label
RECURSIVE SplitGroups(_, _, _, _, _, _, _)
SplitGroups(photo_ids, members, pp, keys, largest_set, k, st) ==
    IF k > Len(keys) THEN st
    ELSE IF keys[k] = largest_set \/ CanMerge(keys[k], largest_set)
         THEN SplitGroups(photo_ids, members, pp, keys, largest_set, k + 1, st)
         ELSE SplitGroups(photo_ids, members, pp, keys, largest_set, k + 1,
                  [new_labels |-> Relabel(photo_ids, st.new_labels,
                                          SetGroup(members, pp, keys[k]), st.next_label),
                   next_label |-> NextLabel(st.next_label)])

RefineCluster_NoDominant(photo_ids, members, pp, st) ==
    LET keys == SetGroupKeys(members, pp, {})
    IN  IF Len(members) <= 1 THEN st
        ELSE IF \A k \in DOMAIN members : PersonSet(pp, members[k]) = {} THEN st
        ELSE SplitGroups(photo_ids, members, pp, keys, {NULL}, 1, st)

\* one iteration of "for cluster_label, cluster_photo_ids in cluster_photos_map.items()"
RefineCluster(photo_ids, members, pp, st) ==
    LET keys == SetGroupKeys(members, pp, {})
    IN  IF Len(members) <= 1 THEN st
        ELSE IF \A k \in DOMAIN members : PersonSet(pp, members[k]) = {} THEN st
        ELSE IF Len(keys) = 1 THEN st
        ELSE SplitGroups(photo_ids, members, pp, keys, LargestSet(members, pp), 1, st)

RECURSIVE RefineLoop(_, _, _, _, _)
RefineLoop(photo_ids, labels, pp, todo, st) ==
    IF todo = <<>> THEN st
    ELSE RefineLoop(photo_ids, labels, pp, Tail(todo),
             RefineCluster(photo_ids, ClusterMembers(photo_ids, labels, Head(todo)), pp, st))

refine_clusters_by_faces(photo_ids, labels, pp) ==
    RefineLoop(photo_ids, labels, pp, ClusterLabels(labels, {}),
               [new_labels |-> labels, next_label |-> FirstNewLabel(labels)]).new_labels

\* ---------------------------------------------- cluster_photos: persisting
\* cluster_map[label], for a label already inserted (cluster_map is a sequence of
\* <<label, cluster_id>> in insertion order)
ClusterMapGet(cluster_map, label) ==
    LET k == CHOOSE k \in DOMAIN cluster_map : cluster_map[k][1] = label
    IN  cluster_map[k][2]

SingletonCluster_NoRepresentative(st, photo_id) ==
    [st EXCEPT !.seq = st.seq + 1,
               !.clusters = @ \cup {[id |-> st.seq + 1, photo_count |-> 1,
                                     representative_photo_id |-> NULL]},
               !.photos = [@ EXCEPT ![photo_id].cluster_id = st.seq + 1]]

\* the branch "if label == -1": the unclustered photo gets a clusters row of its own
SingletonCluster(st, photo_id) ==
    [st EXCEPT !.seq = st.seq + 1,
               !.clusters = @ \cup {[id |-> st.seq + 1, photo_count |-> 1,
                                     representative_photo_id |-> photo_id]},
               !.photos = [@ EXCEPT ![photo_id].cluster_id = st.seq + 1,
                                    ![photo_id].is_cluster_representative = 1]]

\* the loop "for photo_id, label in zip(photo_ids, labels)", from position i on;
\* st carries the tables photos and clusters, the AUTOINCREMENT counter and cluster_map
RECURSIVE AssignClusterIds(_, _, _, _)
AssignClusterIds(photo_ids, labels, i, st) ==
    IF i > Len(photo_ids) THEN st
    ELSE LET photo_id == photo_ids[i]
             label == labels[i]
             known == \E k \in DOMAIN st.cluster_map : st.cluster_map[k][1] = label
             fresh == st.seq + 1
         IN  IF label = NOISE
             THEN AssignClusterIds(photo_ids, labels, i + 1, SingletonCluster(st, photo_id))
             ELSE IF known
             THEN AssignClusterIds(photo_ids, labels, i + 1,
                      [st EXCEPT !.photos = [@ EXCEPT ![photo_id].cluster_id =
                                                 ClusterMapGet(st.cluster_map, label)]])
             ELSE AssignClusterIds(photo_ids, labels, i + 1,
                      [st EXCEPT !.seq = fresh,
                                 !.clusters = @ \cup {[id |-> fresh, photo_count |-> 0,
                                                       representative_photo_id |-> NULL]},
                                 !.cluster_map = Append(@, <<label, fresh>>),
                                 !.photos = [@ EXCEPT ![photo_id].cluster_id = fresh]])

RepBefore_AreaFirst(ph, tie, p, q) ==
    \/ ph[p].width * ph[p].height > ph[q].width * ph[q].height
    \/ /\ ph[p].width * ph[p].height = ph[q].width * ph[q].height
       /\ ph[p].taken_at < ph[q].taken_at
    \/ /\ ph[p].width * ph[p].height = ph[q].width * ph[q].height
       /\ ph[p].taken_at = ph[q].taken_at
       /\ tie[p] < tie[q]

\* the row order of "ORDER BY taken_at ASC, (width * height) DESC"; rows equal on both
\* keys come in an order SQL leaves open, here the order of the ranking tie
RepBefore(ph, tie, p, q) ==
    \/ ph[p].taken_at < ph[q].taken_at
    \/ /\ ph[p].taken_at = ph[q].taken_at
       /\ ph[p].width * ph[p].height > ph[q].width * ph[q].height
    \/ /\ ph[p].taken_at = ph[q].taken_at
       /\ ph[p].width * ph[p].height = ph[q].width * ph[q].height
       /\ tie[p] < tie[q]

Representative_AnyCluster(ph, tie, cluster_id) ==
    LET rows == {p \in DOMAIN ph : ph[p].cluster_id # NULL}
    IN  IF rows = {} THEN NULL
        ELSE CHOOSE p \in rows : \A q \in rows \ {p} : RepBefore(ph, tie, p, q)

\* SELECT id FROM photos WHERE cluster_id = ? ORDER BY ... LIMIT 1 (NULL: no row)
Representative(ph, tie, cluster_id) ==
    LET rows == {p \in DOMAIN ph : ph[p].cluster_id = cluster_id}
    IN  IF rows = {} THEN NULL
        ELSE CHOOSE p \in rows : \A q \in rows \ {p} : RepBefore(ph, tie, p, q)

\* SELECT COUNT(*) FROM photos WHERE cluster_id = ?
ClusterCount_All(ph, cluster_id) ==
    Cardinality({p \in DOMAIN ph : ph[p].cluster_id # NULL})

ClusterCount(ph, cluster_id) ==
    Cardinality({p \in DOMAIN ph : ph[p].cluster_id = cluster_id})

\* the loop "for old_label, cluster_id in cluster_map.items()", from entry k on
RECURSIVE UpdateClusterStats(_, _, _)
UpdateClusterStats(tie, k, st) ==
    IF k > Len(st.cluster_map) THEN st
    ELSE LET cluster_id == st.cluster_map[k][2]
             count == ClusterCount(st.photos, cluster_id)
             rep == Representative(st.photos, tie, cluster_id)
         IN  IF rep = NULL THEN UpdateClusterStats(tie, k + 1, st)
             ELSE UpdateClusterStats(tie, k + 1,
                      [st EXCEPT !.clusters = {IF c.id = cluster_id
                                               THEN [id |-> c.id, photo_count |-> count,
                                                     representative_photo_id |-> rep]
                                               ELSE c : c \in @},
                                 !.photos = [@ EXCEPT ![rep].is_cluster_representative = 1]])

Persist_SkipFirst(ph, seq, photo_ids, labels, tie) ==
    UpdateClusterStats(tie, 1,
        AssignClusterIds(photo_ids, labels, 2,
            [photos |-> [p \in DOMAIN ph |->
                            [ph[p] EXCEPT !.cluster_id = NULL, !.is_cluster_representative = 0]],
             clusters |-> {},
             seq |-> seq,
             cluster_map |-> <<>>]))

Persist_ResetRating(ph, seq, photo_ids, labels, tie) ==
    UpdateClusterStats(tie, 1,
        AssignClusterIds(photo_ids, labels, 1,
            [photos |-> [p \in DOMAIN ph |->
                            [ph[p] EXCEPT !.cluster_id = NULL, !.is_cluster_representative = 0,
                                          !.rating = 0]],
             clusters |-> {},
             seq |-> seq,
             cluster_map |-> <<>>]))

\* lines 731-786: clear the old assignment, then write the new one
Persist(ph, seq, photo_ids, labels, tie) ==
    UpdateClusterStats(tie, 1,
        AssignClusterIds(photo_ids, labels, 1,
            [photos |-> [p \in DOMAIN ph |->
                            [ph[p] EXCEPT !.cluster_id = NULL, !.is_cluster_representative = 0]],
             clusters |-> {},
             seq |-> seq,
             cluster_map |-> <<>>]))

\* get_photo_persons(cursor, photo_id)
get_photo_persons(table, photo_id) == {r[2] : r \in {x \in table : x[1] = photo_id}}

\* the orders in which SQL may return rows that are equal on every ORDER BY key
TieOrders(S) == {f \in [S -> 1..Cardinality(S)] : \A p, q \in S : p # q => f[p] # f[q]}

NoRun == [done |-> FALSE, photo_ids |-> <<>>, labels |-> <<>>, refined |-> <<>>]
NoRefine == [pc |-> "none", photo_ids |-> <<>>, labels |-> <<>>,
             photo_persons |-> <<>>, new_labels |-> <<>>]
NoCall == [pc |-> "none"]

\* the web server is not running
ServerIdle ==
    /\ http = NoCall
    /\ export = NoCall
    /\ scan = NoCall

\* no call in progress outside the pipeline
Idle ==
    /\ txn = NoCall
    /\ dup = NoCall
    /\ twin = NoCall
    /\ person_run = NoCall
    /\ batch = NoCall
    /\ ServerIdle

\* ------------------------------------------------------------------ stages
\* init_database(): every table empty
Init ==
    /\ photos = <<>>
    /\ embeddings = {}
    /\ near = {}
    /\ faces = {}
    /\ photo_persons = {}
    /\ clusters = {}
    /\ cluster_seq = 0
    /\ run = NoRun
    /\ refine = NoRefine
    /\ Idle

\* index_photos(photos): one INSERT per new file, with the metadata read from it
IndexPhotos ==
    /\ Len(photos) < MaxPhotos
    /\ \E k \in 1..(MaxPhotos - Len(photos)) :
       \E meta \in [1..k -> [taken_at : Times, width : 1..MaxWidth, height : 1..MaxHeight]] :
          photos' = photos \o [i \in 1..k |->
                                  [taken_at |-> meta[i].taken_at,
                                   width |-> meta[i].width,
                                   height |-> meta[i].height,
                                   cluster_id |-> NULL,
                                   is_cluster_representative |-> 0]]
    /\ run' = NoRun
    /\ UNCHANGED <<embeddings, near, faces, photo_persons, clusters, cluster_seq, refine, aux>>

\* compute_embeddings(): every photo without an embedding is tried; one that cannot
\* be loaded is skipped
ComputeEmbeddings ==
    LET photos_to_embed == PhotoIds \ embeddings
    IN  /\ photos_to_embed # {}
        /\ \E valid_ids \in SUBSET photos_to_embed :
           \E close \in SUBSET {{p, q} : p \in valid_ids, q \in embeddings \cup valid_ids} :
              /\ valid_ids # {}
              /\ \A pair \in close : Cardinality(pair) = 2
              /\ embeddings' = embeddings \cup valid_ids
              /\ near' = near \cup close
        /\ run' = NoRun
        /\ UNCHANGED <<photos, faces, photo_persons, clusters, cluster_seq, refine, aux>>

\* detect_faces(): every photo without a face row is scanned; faces are inserted for
\* the photos in which some are found
DetectFaces ==
    LET photos_to_scan == PhotoIds \ faces
    IN  /\ photos_to_scan # {}
        /\ \E found \in SUBSET photos_to_scan :
              /\ found # {}
              /\ faces' = faces \cup found
        /\ run' = NoRun
        /\ UNCHANGED <<photos, embeddings, near, photo_persons, clusters, cluster_seq, refine, aux>>

\* cluster_persons(): every face gets a person; photo_persons is rebuilt from the faces
ClusterPersons ==
    /\ faces # {}
    /\ \E persons_of \in [faces -> (SUBSET Persons) \ {{}}] :
          photo_persons' = {<<p, x>> : p \in faces, x \in Persons} \cap
                           {r \in faces \X Persons : r[2] \in persons_of[r[1]]}
    /\ run' = NoRun
    /\ UNCHANGED <<photos, embeddings, near, faces, clusters, cluster_seq, refine, aux>>

\* cluster_photos()
ClusterPhotos ==
    LET photo_ids == LoadRows(photos, embeddings)
        labels == DBSCAN(photo_ids, near)
        has_faces == faces # {}
        pp == [p \in Range(photo_ids) |-> get_photo_persons(photo_persons, p)]
        refined == IF has_faces THEN refine_clusters_by_faces(photo_ids, labels, pp)
                   ELSE labels
    IN  IF photo_ids = <<>>
        THEN /\ run' = [NoRun EXCEPT !.done = TRUE]
             /\ UNCHANGED <<db, refine, aux>>
        ELSE /\ cluster_seq + Len(photo_ids) <= MaxClusterSeq
             /\ \E tie \in TieOrders(PhotoIds) :
                LET st == Persist(photos, cluster_seq, photo_ids, refined, tie)
                IN  /\ photos' = st.photos
                    /\ clusters' = st.clusters
                    /\ cluster_seq' = st.seq
             /\ run' = [done |-> TRUE, photo_ids |-> photo_ids,
                        labels |-> labels, refined |-> refined]
             /\ UNCHANGED <<embeddings, near, faces, photo_persons, refine, aux>>

Next ==
    \/ IndexPhotos
    \/ ComputeEmbeddings
    \/ DetectFaces
    \/ ClusterPersons
    \/ ClusterPhotos

Spec == Init /\ [][Next]_vars

\* cluster_photos with the labels of DBSCAN(...).fit_predict left open: any vector of
\* labels over the loaded photos, the noise label -1 included (with the shipped
\* DBSCAN_MIN_SAMPLES = 1 sklearn returns no -1; the branch for it is still there)
ClusterPhotosAnyLabels ==
    LET photo_ids == LoadRows(photos, embeddings)
        has_faces == faces # {}
        pp == [p \in Range(photo_ids) |-> get_photo_persons(photo_persons, p)]
    IN  IF photo_ids = <<>>
        THEN /\ run' = [NoRun EXCEPT !.done = TRUE]
             /\ UNCHANGED <<db, refine, aux>>
        ELSE /\ cluster_seq + Len(photo_ids) <= MaxClusterSeq
             /\ \E labels \in [DOMAIN photo_ids -> NOISE..MaxLabel] :
                LET refined == IF has_faces
                               THEN refine_clusters_by_faces(photo_ids, labels, pp)
                               ELSE labels
                IN  /\ \E tie \in TieOrders(PhotoIds) :
                       LET st == Persist(photos, cluster_seq, photo_ids, refined, tie)
                       IN  /\ photos' = st.photos
                           /\ clusters' = st.clusters
                           /\ cluster_seq' = st.seq
                    /\ run' = [done |-> TRUE, photo_ids |-> photo_ids,
                               labels |-> labels, refined |-> refined]
             /\ UNCHANGED <<embeddings, near, faces, photo_persons, refine, aux>>

NextAnyLabels ==
    \/ IndexPhotos
    \/ ComputeEmbeddings
    \/ DetectFaces
    \/ ClusterPersons
    \/ ClusterPhotosAnyLabels

SpecAnyLabels == Init /\ [][NextAnyLabels]_vars

\* ------------------------------ cluster_photos, statement by statement
\* the tables as another connection reads them after a statement of the run
Committed_Autocommit(file, work, commit) == work

\* sqlite3.connect(DB_PATH) keeps the default isolation level: the statements from
\* the first DELETE on stay in one open transaction until conn.commit()
Committed(file, work, commit) == IF commit THEN work ELSE file

Publish(work, commit) ==
    LET file == Committed([photos |-> photos, clusters |-> clusters, seq |-> cluster_seq],
                          work, commit)
    IN  /\ photos' = file.photos
        /\ clusters' = file.clusters
        /\ cluster_seq' = file.seq

\* a call of cluster_photos is between its first DELETE and its commit
InTxn == txn.pc \in {"assign", "stats"}

\* lines 666-733: load, cluster, refine, then DELETE FROM clusters and clear photos
TxnBegin ==
    LET photo_ids == LoadRows(photos, embeddings)
        labels == DBSCAN(photo_ids, near)
        has_faces == faces # {}
        pp == [p \in Range(photo_ids) |-> get_photo_persons(photo_persons, p)]
        refined == IF has_faces THEN refine_clusters_by_faces(photo_ids, labels, pp)
                   ELSE labels
        cleared == [photos |-> [p \in DOMAIN photos |->
                                   [photos[p] EXCEPT !.cluster_id = NULL,
                                                     !.is_cluster_representative = 0]],
                    clusters |-> {},
                    seq |-> cluster_seq,
                    cluster_map |-> <<>>]
    IN  /\ ~InTxn
        /\ IF photo_ids = <<>>
           THEN /\ run' = [NoRun EXCEPT !.done = TRUE]
                /\ UNCHANGED <<db, txn>>
           ELSE /\ cluster_seq + Len(photo_ids) <= MaxClusterSeq
                /\ \E tie \in TieOrders(PhotoIds) :
                      txn' = [pc |-> "assign", photo_ids |-> photo_ids, labels |-> labels,
                              refined |-> refined, tie |-> tie, i |-> 1, k |-> 1,
                              st |-> cleared]
                /\ Publish(cleared, FALSE)
                /\ run' = NoRun
                /\ UNCHANGED <<embeddings, near, faces, photo_persons>>
        /\ UNCHANGED <<refine, dup, twin, person_run, batch, srv>>

\* lines 738-756: one iteration of the loop over zip(photo_ids, labels)
TxnAssign ==
    /\ txn.pc = "assign"
    /\ LET st == AssignClusterIds(SubSeq(txn.photo_ids, 1, txn.i),
                                  SubSeq(txn.refined, 1, txn.i), txn.i, txn.st)
       IN  /\ txn' = [txn EXCEPT !.st = st, !.i = @ + 1,
                                 !.pc = IF txn.i = Len(txn.photo_ids) THEN "stats"
                                        ELSE "assign"]
           /\ Publish(st, FALSE)
    /\ run' = NoRun
    /\ UNCHANGED <<embeddings, near, faces, photo_persons, refine, dup, twin, person_run,
                   batch, srv>>

\* lines 759-784: one iteration of the loop over cluster_map.items()
TxnStats ==
    /\ txn.pc = "stats"
    /\ txn.k <= Len(txn.st.cluster_map)
    /\ LET one == UpdateClusterStats(txn.tie, txn.k,
                      [txn.st EXCEPT !.cluster_map = SubSeq(@, 1, txn.k)])
           st == [one EXCEPT !.cluster_map = txn.st.cluster_map]
       IN  /\ txn' = [txn EXCEPT !.st = st, !.k = @ + 1]
           /\ Publish(st, FALSE)
    /\ run' = NoRun
    /\ UNCHANGED <<embeddings, near, faces, photo_persons, refine, dup, twin, person_run,
                   batch, srv>>

\* line 786: conn.commit()
TxnCommit ==
    /\ txn.pc = "stats"
    /\ txn.k > Len(txn.st.cluster_map)
    /\ Publish(txn.st, TRUE)
    /\ txn' = NoCall
    /\ run' = [done |-> TRUE, photo_ids |-> txn.photo_ids,
               labels |-> txn.labels, refined |-> txn.refined]
    /\ UNCHANGED <<embeddings, near, faces, photo_persons, refine, dup, twin, person_run,
                   batch, srv>>

\* a statement of lines 738-784 raises: the exception leaves cluster_photos and main
\* without a commit, and the connection is dropped with its transaction open
TxnFail ==
    /\ InTxn
    /\ Publish(txn.st, FALSE)
    /\ txn' = [txn EXCEPT !.pc = "failed"]
    /\ run' = NoRun
    /\ UNCHANGED <<embeddings, near, faces, photo_persons, refine, dup, twin, person_run,
                   batch, srv>>

\* the stages run one after the other in one process
NextTxn ==
    \/ ~InTxn /\ IndexPhotos
    \/ ~InTxn /\ ComputeEmbeddings
    \/ ~InTxn /\ DetectFaces
    \/ ~InTxn /\ ClusterPersons
    \/ TxnBegin
    \/ TxnAssign
    \/ TxnStats
    \/ TxnCommit
    \/ TxnFail

SpecTxn == Init /\ [][NextTxn]_vars

\* --------------------------- refine_clusters_by_faces called on its own
\* n distinct photo ids, in ascending and in descending order (the function uses a
\* photo id only as a key, so the two orders stand for every order)
IdLists(n) == {[i \in 1..n |-> i], [i \in 1..n |-> n + 1 - i]}

\* a call with any photo order, any labels (noise included) and any person-sets
InitRefine ==
    /\ photos = <<>>
    /\ embeddings = {}
    /\ near = {}
    /\ faces = {}
    /\ photo_persons = {}
    /\ clusters = {}
    /\ cluster_seq = 0
    /\ run = NoRun
    /\ Idle
    /\ \E n \in 1..MaxRefinePhotos :
          refine \in [pc : {"call"},
                      photo_ids : IdLists(n),
                      labels : [1..n -> NOISE..MaxLabel],
                      photo_persons : [1..n -> SUBSET Persons],
                      new_labels : {<<>>}]

RefineCall ==
    /\ refine.pc = "call"
    /\ refine' = [refine EXCEPT
                     !.pc = "return",
                     !.new_labels = refine_clusters_by_faces(refine.photo_ids, refine.labels,
                                                             refine.photo_persons)]
    /\ UNCHANGED <<db, run, aux>>

NextRefine == RefineCall

SpecRefine == InitRefine /\ [][NextRefine]_vars

\* ----------------------------------- find_near_duplicates called on its own
\* str(imagehash.dhash(img)) as a string of HashBits bits; of the 2^HashBits hashes
\* the ones whose first k bits are set, which lie at every distance from 0 to HashBits
Hash(k) == [b \in 1..HashBits |-> IF b <= k THEN 1 ELSE 0]

\* the values of the column photos.dhash: SQL NULL, the empty string that
\* compute_dhash returns on failure, or a hash
DhashValues ==
    {[is_null |-> TRUE, text |-> <<>>]} \cup
    {[is_null |-> FALSE, text |-> t] : t \in {<<>>} \cup {Hash(k) : k \in 0..HashBits}}

SelectHashed_KeepEmpty(rows) ==
    LET RECURSIVE Rows(_)
        Rows(i) == IF i > Len(rows) THEN <<>>
                   ELSE IF ~rows[i].is_null
                        THEN <<[id |-> i, dhash |-> rows[i].text]>> \o Rows(i + 1)
                        ELSE Rows(i + 1)
    IN  Rows(1)

\* SELECT id, dhash FROM photos WHERE dhash IS NOT NULL AND dhash != ''
SelectHashed(rows) ==
    LET RECURSIVE Rows(_)
        Rows(i) == IF i > Len(rows) THEN <<>>
                   ELSE IF ~rows[i].is_null /\ rows[i].text # <<>>
                        THEN <<[id |-> i, dhash |-> rows[i].text]>> \o Rows(i + 1)
                        ELSE Rows(i + 1)
    IN  Rows(1)

\* the loop that fills hash_to_ids, from row i on; the dict is a sequence of
\* <<hash, ids>> in insertion order
RECURSIVE HashToIds(_, _, _)
HashToIds(selected, i, hash_to_ids) ==
    IF i > Len(selected) THEN hash_to_ids
    ELSE LET h == selected[i].dhash
             known == \E k \in DOMAIN hash_to_ids : hash_to_ids[k][1] = h
         IN  IF known
             THEN HashToIds(selected, i + 1,
                      [k \in DOMAIN hash_to_ids |->
                          IF hash_to_ids[k][1] = h
                          THEN <<h, Append(hash_to_ids[k][2], selected[i].id)>>
                          ELSE hash_to_ids[k]])
             ELSE HashToIds(selected, i + 1,
                      Append(hash_to_ids, <<h, <<selected[i].id>> >>))

DuplicateGroups_KeepSingletons(hash_to_ids) ==
    LET RECURSIVE Groups(_)
        Groups(k) == IF k > Len(hash_to_ids) THEN <<>>
                     ELSE <<hash_to_ids[k][2]>> \o Groups(k + 1)
    IN  Groups(1)

\* [ids for ids in hash_to_ids.values() if len(ids) > 1]
DuplicateGroups(hash_to_ids) ==
    LET RECURSIVE Groups(_)
        Groups(k) == IF k > Len(hash_to_ids) THEN <<>>
                     ELSE IF Len(hash_to_ids[k][2]) > 1
                          THEN <<hash_to_ids[k][2]>> \o Groups(k + 1)
                          ELSE Groups(k + 1)
    IN  Groups(1)

find_near_duplicates(rows) == DuplicateGroups(HashToIds(SelectHashed(rows), 1, <<>>))

InitDup ==
    /\ photos = <<>>
    /\ embeddings = {}
    /\ near = {}
    /\ faces = {}
    /\ photo_persons = {}
    /\ clusters = {}
    /\ cluster_seq = 0
    /\ run = NoRun
    /\ refine = NoRefine
    /\ ServerIdle
    /\ txn = NoCall
    /\ twin = NoCall
    /\ person_run = NoCall
    /\ batch = NoCall
    /\ \E n \in 1..MaxDupPhotos :
          dup \in [pc : {"call"}, rows : [1..n -> DhashValues], duplicate_groups : {<<>>}]

DupCall ==
    /\ dup.pc = "call"
    /\ dup' = [dup EXCEPT !.pc = "return",
                          !.duplicate_groups = find_near_duplicates(dup.rows)]
    /\ UNCHANGED <<db, run, refine, txn, twin, person_run, batch, srv>>

NextDup == DupCall

SpecDup == InitDup /\ [][NextDup]_vars

\* ------------------------- two clustering runs that differ in the timestamps
\* the partition of the photo ids that cluster_photos stores, as a function of the
\* tables it reads: lines 671-729 give the labels, lines 731-786 the cluster_ids
StoredPartition(ph, emb, nr, has_faces, table) ==
    LET photo_ids == LoadRows(ph, emb)
        labels == DBSCAN(photo_ids, nr)
        pp == [p \in Range(photo_ids) |-> get_photo_persons(table, p)]
        refined == IF has_faces THEN refine_clusters_by_faces(photo_ids, labels, pp)
                   ELSE labels
        tie == [p \in DOMAIN ph |-> p]
        st == Persist(ph, 0, photo_ids, refined, tie)
    IN  IF photo_ids = <<>> THEN {}
        ELSE {{p \in DOMAIN ph : st.photos[p].cluster_id = c.id} : c \in st.clusters}

\* photos rows that differ only in taken_at
TwinPhotos(taken_at) ==
    [p \in DOMAIN taken_at |-> [taken_at |-> taken_at[p], width |-> 1, height |-> 1,
                                cluster_id |-> NULL, is_cluster_representative |-> 0]]

InitTwin ==
    /\ photos = <<>>
    /\ embeddings = {}
    /\ near = {}
    /\ faces = {}
    /\ photo_persons = {}
    /\ clusters = {}
    /\ cluster_seq = 0
    /\ run = NoRun
    /\ refine = NoRefine
    /\ ServerIdle
    /\ txn = NoCall
    /\ dup = NoCall
    /\ person_run = NoCall
    /\ batch = NoCall
    /\ \E n \in 2..MaxTwinPhotos :
          twin \in [pc : {"call"},
                    near : SUBSET ({{p, q} : p \in 1..n, q \in 1..n} \ {{p} : p \in 1..n}),
                    persons : [1..n -> SUBSET Persons],
                    taken_at : [1..n -> Times],
                    taken_at_2 : [1..n -> Times],
                    partition : {{}},
                    partition_2 : {{}}]

\* both runs, on the same embeddings and the same person-sets
TwinRuns ==
    /\ twin.pc = "call"
    /\ LET ids == DOMAIN twin.persons
           table == {r \in ids \X Persons : r[2] \in twin.persons[r[1]]}
           has_faces == table # {}
       IN  twin' = [twin EXCEPT
                       !.pc = "return",
                       !.partition = StoredPartition(TwinPhotos(twin.taken_at), ids,
                                                     twin.near, has_faces, table),
                       !.partition_2 = StoredPartition(TwinPhotos(twin.taken_at_2), ids,
                                                       twin.near, has_faces, table)]
    /\ UNCHANGED <<db, run, refine, txn, dup, person_run, batch, srv>>

NextTwin == TwinRuns

SpecTwin == InitTwin /\ [][NextTwin]_vars

\* ------------------------------------- cluster_persons called on its own
\* the tables faces (a sequence of rows, the row id is the position), persons and
\* photo_persons in full, and the AUTOINCREMENT counter of persons
\* (f.bbox_bottom - f.bbox_top) * (f.bbox_right - f.bbox_left)
FaceArea(f) == (f.bbox_bottom - f.bbox_top) * (f.bbox_right - f.bbox_left)

\* SELECT id ... FROM faces WHERE embedding IS NOT NULL: every row, because
\* _save_face_results inserts each face with its encoding
EmbeddedFaces(fs) == [i \in 1..Len(fs) |-> i]

\* the loop "for face_id, label in zip(face_ids, labels)", from position i on;
\* person_map is a sequence of <<label, person_id>> in insertion order
RECURSIVE AssignPersons(_, _, _, _)
AssignPersons(face_ids, labels, i, st) ==
    IF i > Len(face_ids) THEN st
    ELSE LET label == labels[i]
             known == \E k \in DOMAIN st.person_map : st.person_map[k][1] = label
             fresh == st.person_seq + 1
             person_id == IF known THEN ClusterMapGet(st.person_map, label) ELSE fresh
             assigned == [st EXCEPT !.faces = [@ EXCEPT ![face_ids[i]].person_id = person_id]]
         IN  IF known
             THEN AssignPersons(face_ids, labels, i + 1, assigned)
             ELSE AssignPersons(face_ids, labels, i + 1,
                      [assigned EXCEPT
                          !.person_seq = fresh,
                          !.persons = @ \cup {[id |-> fresh, photo_count |-> 0,
                                               thumbnail_face_id |-> NULL]},
                          !.person_map = Append(@, <<label, fresh>>)])

Thumbnail_SmallestFace(fs, tie, person_id) ==
    LET rows == {f \in DOMAIN fs : fs[f].person_id = person_id}
    IN  IF rows = {} THEN NULL
        ELSE CHOOSE f \in rows : \A g \in rows \ {f} :
                 \/ FaceArea(fs[f]) < FaceArea(fs[g])
                 \/ FaceArea(fs[f]) = FaceArea(fs[g]) /\ tie[f] < tie[g]

\* SELECT f.id, ... as area FROM faces f WHERE f.person_id = ? ORDER BY area DESC
\* LIMIT 1; faces of equal area come in an order SQL leaves open, here that of tie
Thumbnail(fs, tie, person_id) ==
    LET rows == {f \in DOMAIN fs : fs[f].person_id = person_id}
    IN  IF rows = {} THEN NULL
        ELSE CHOOSE f \in rows : \A g \in rows \ {f} :
                 \/ FaceArea(fs[f]) > FaceArea(fs[g])
                 \/ FaceArea(fs[f]) = FaceArea(fs[g]) /\ tie[f] < tie[g]

\* the loop "for label, person_id in person_map.items()", from entry k on
RECURSIVE PersonStats(_, _, _)
PersonStats(tie, k, st) ==
    IF k > Len(st.person_map) THEN st
    ELSE LET person_id == st.person_map[k][2]
             rows == {f \in DOMAIN st.faces : st.faces[f].person_id = person_id}
             photo_counts == {<<ph, Cardinality({f \in rows : st.faces[f].photo_id = ph})>> :
                                 ph \in {st.faces[f].photo_id : f \in rows}}
             thumb == Thumbnail(st.faces, tie, person_id)
         IN  PersonStats(tie, k + 1,
                 [st EXCEPT
                     !.photo_persons = {r \in @ : \A c \in photo_counts :
                                           ~(r[1] = c[1] /\ r[2] = person_id)}
                                       \cup {<<c[1], person_id, c[2]>> : c \in photo_counts},
                     !.persons = {IF r.id = person_id
                                  THEN [id |-> r.id,
                                        photo_count |-> Cardinality(photo_counts),
                                        thumbnail_face_id |-> IF thumb = NULL
                                                              THEN r.thumbnail_face_id
                                                              ELSE thumb]
                                  ELSE r : r \in @}])

\* lines 511-563: clear the old persons, then write the new ones
cluster_persons(st, face_ids, labels, tie) ==
    PersonStats(tie, 1,
        AssignPersons(face_ids, labels, 1,
            [faces |-> [f \in DOMAIN st.faces |-> [st.faces[f] EXCEPT !.person_id = NULL]],
             persons |-> {},
             photo_persons |-> {},
             person_seq |-> st.person_seq,
             person_map |-> <<>>]))

\* a faces row as _save_face_results inserts it: both sides of the box are at
\* least MIN_FACE_SIZE (here in units of it), and person_id is NULL
FaceRows ==
    [photo_id : 1..MaxFacePhotos, bbox_top : {0}, bbox_left : {0},
     bbox_bottom : 1..MaxBox, bbox_right : 1..MaxBox, person_id : {NULL}]

InitPersons ==
    /\ photos = <<>>
    /\ embeddings = {}
    /\ near = {}
    /\ faces = {}
    /\ photo_persons = {}
    /\ clusters = {}
    /\ cluster_seq = 0
    /\ run = NoRun
    /\ refine = NoRefine
    /\ ServerIdle
    /\ txn = NoCall
    /\ dup = NoCall
    /\ twin = NoCall
    /\ batch = NoCall
    /\ \E n \in 1..MaxFaces :
          person_run \in [pc : {"idle"}, faces : [1..n -> FaceRows], persons : {{}},
                          photo_persons : {{}}, person_seq : {0}, labels : {<<>>}]

\* cluster_persons() on a store with faces: AgglomerativeClustering gives every face
\* one of the labels 0..n-1 (which ones is left open); with a single face its fit
\* raises, before any statement has written
PersonsCall ==
    /\ person_run.pc \in {"idle", "return"}
    /\ LET face_ids == EmbeddedFaces(person_run.faces)
           n == Len(face_ids)
       IN  IF n < 2
           THEN person_run' = [person_run EXCEPT !.pc = "raised"]
           ELSE /\ person_run.person_seq + n <= MaxPersonSeq
                /\ \E labels \in [1..n -> 0..(n - 1)] :
                   \E tie \in TieOrders(DOMAIN person_run.faces) :
                      LET st == cluster_persons(person_run, face_ids, labels, tie)
                      IN  person_run' = [pc |-> "return",
                                         faces |-> st.faces,
                                         persons |-> st.persons,
                                         photo_persons |-> st.photo_persons,
                                         person_seq |-> st.person_seq,
                                         labels |-> labels]
    /\ UNCHANGED <<db, run, refine, txn, dup, twin, batch, srv>>

NextPersons == PersonsCall

SpecPersons == InitPersons /\ [][NextPersons]_vars

\* --------------------- the feature-extraction stages, item by item
\* "continue" in the except branch of a loop over n items: on to item i + 1
Continue_Break(i, n) == n + 1

Continue(i, n) == i + 1

\* index_photos: the loop over new_photos from item i on; the files in fails raise
\* inside the try block, the others are inserted
RECURSIVE IndexLoop(_, _, _, _)
IndexLoop(new_photos, fails, i, table) ==
    IF i > Len(new_photos) THEN table
    ELSE IF new_photos[i] \in fails
         THEN IndexLoop(new_photos, fails, Continue(i, Len(new_photos)), table)
         ELSE IndexLoop(new_photos, fails, i + 1, Append(table, new_photos[i]))

\* compute_embeddings: the loop over one batch from item j on; a photo in fails
\* cannot be opened and is left out of valid_ids
RECURSIVE LoadBatch(_, _, _, _)
LoadBatch(chunk, fails, j, valid_ids) ==
    IF j > Len(chunk) THEN valid_ids
    ELSE IF chunk[j] \in fails
         THEN LoadBatch(chunk, fails, Continue(j, Len(chunk)), valid_ids)
         ELSE LoadBatch(chunk, fails, j + 1, Append(valid_ids, chunk[j]))

\* compute_embeddings: the loop over the batches, from the batch that starts at i
RECURSIVE EmbedLoop(_, _, _, _)
EmbedLoop(photos_to_embed, fails, i, table) ==
    IF i > Len(photos_to_embed) THEN table
    ELSE LET last == IF i + batch_size - 1 < Len(photos_to_embed)
                     THEN i + batch_size - 1 ELSE Len(photos_to_embed)
             valid_ids == LoadBatch(SubSeq(photos_to_embed, i, last), fails, 1, <<>>)
         IN  EmbedLoop(photos_to_embed, fails, i + batch_size, table \cup Range(valid_ids))

\* _process_single_photo: (photo_id, -1, error) when anything raises
ProcessSinglePhoto(photo_id, fails, count) ==
    IF photo_id \in fails THEN <<photo_id, -1>> ELSE <<photo_id, count>>

\* _save_face_results: the loop over results from item i on; st holds the photos
\* whose face_count was written and the faces rows <<photo_id, k>> inserted
RECURSIVE SaveFaceResults(_, _, _)
SaveFaceResults(results, i, st) ==
    IF i > Len(results) THEN st
    ELSE LET photo_id == results[i][1]
             face_count == results[i][2]
         IN  IF face_count = -1
             THEN SaveFaceResults(results, Continue(i, Len(results)), st)
             ELSE SaveFaceResults(results, i + 1,
                      [st EXCEPT !.scanned = @ \cup {photo_id},
                                 !.faces = @ \cup {<<photo_id, k>> : k \in 1..face_count}])

InitBatch ==
    /\ photos = <<>>
    /\ embeddings = {}
    /\ near = {}
    /\ faces = {}
    /\ photo_persons = {}
    /\ clusters = {}
    /\ cluster_seq = 0
    /\ run = NoRun
    /\ refine = NoRefine
    /\ ServerIdle
    /\ txn = NoCall
    /\ dup = NoCall
    /\ twin = NoCall
    /\ person_run = NoCall
    /\ \E n \in 1..MaxItems :
          batch \in [pc : {"index", "embed", "faces"},
                     items : {[i \in 1..n |-> i]},
                     fails : SUBSET (1..n),
                     counts : [1..n -> 0..MaxFaceCount],
                     photos : {<<>>},
                     embeddings : {{}},
                     scanned : {{}},
                     faces : {{}}]

\* index_photos(photos) on files that are not indexed yet
IndexStage ==
    /\ batch.pc = "index"
    /\ batch' = [batch EXCEPT !.pc = "indexed",
                              !.photos = IndexLoop(batch.items, batch.fails, 1, <<>>)]
    /\ UNCHANGED <<db, run, refine, txn, dup, twin, person_run, srv>>

\* compute_embeddings() on photos without an embedding
EmbedStage ==
    /\ batch.pc = "embed"
    /\ batch' = [batch EXCEPT !.pc = "embedded",
                              !.embeddings = EmbedLoop(batch.items, batch.fails, 1, {})]
    /\ UNCHANGED <<db, run, refine, txn, dup, twin, person_run, srv>>

\* detect_faces() on photos without faces: the workers' results, then the save
FacesStage ==
    /\ batch.pc = "faces"
    /\ LET results == [i \in DOMAIN batch.items |->
                          ProcessSinglePhoto(batch.items[i], batch.fails, batch.counts[i])]
           st == SaveFaceResults(results, 1, [scanned |-> {}, faces |-> {}])
       IN  batch' = [batch EXCEPT !.pc = "detected",
                                  !.scanned = st.scanned,
                                  !.faces = st.faces]
    /\ UNCHANGED <<db, run, refine, txn, dup, twin, person_run, srv>>

NextBatch ==
    \/ IndexStage
    \/ EmbedStage
    \/ FacesStage

SpecBatch == InitBatch /\ [][NextBatch]_vars

\* ------------------------------------------- server.py: the rating requests
\* "if not 0 <= data.rating <= 5"
ValidRating_NoUpperBound(rating) == MinRating <= rating

ValidRating(rating) == MinRating <= rating /\ rating <= MaxRating

\* the ratings a request can carry: PhotoRating.rating is an int
RatingInputs == (MinRating - 1)..(MaxRating + 1)

\* a photos row of the table init_database creates: it has no is_rejected column
IndexerRows ==
    [cluster_id : {NULL} \cup (1..MaxServerClusters), rating : {0}, is_starred : {0, 1}]

\* a photos row of the table the server's statements are written for, which has
\* the is_rejected column as well
ServerRows ==
    [cluster_id : {NULL} \cup (1..MaxServerClusters), rating : {0},
     is_starred : {0, 1}, is_rejected : {0, 1}]

\* whether the photos table of the open database has the column
HasColumn(c) == \A p \in PhotoIds : c \in DOMAIN photos[p]

\* the server opens a database file that main() has filled, with either table
\* layout: ratings at their default, stars and rejections as an earlier session
\* left them
InitRating ==
    /\ embeddings = {}
    /\ near = {}
    /\ faces = {}
    /\ photo_persons = {}
    /\ clusters = {}
    /\ cluster_seq = 0
    /\ run = NoRun
    /\ refine = NoRefine
    /\ txn = NoCall
    /\ dup = NoCall
    /\ twin = NoCall
    /\ person_run = NoCall
    /\ batch = NoCall
    /\ export = NoCall
    /\ scan = NoCall
    /\ http = NoCall
    /\ \E n \in 1..MaxServerPhotos :
           photos \in [1..n -> IndexerRows] \cup [1..n -> ServerRows]

\* PUT /api/photos/{photo_id}/rating
update_rating ==
    \E photo_id \in 1..(Len(photos) + 1), rating \in RatingInputs :
        LET rowcount == Cardinality({p \in PhotoIds : p = photo_id})
            status == IF ~ValidRating(rating) THEN 400
                      ELSE IF rowcount = 0 THEN 404 ELSE 200
        IN  /\ http' = [op |-> "update_rating", id |-> photo_id, rating |-> rating,
                        status |-> status]
            /\ photos' = IF status = 200
                         THEN [photos EXCEPT ![photo_id].rating = rating]
                         ELSE photos
            /\ UNCHANGED <<embeddings, near, faces, photo_persons, clusters, cluster_seq,
                           run, refine, txn, dup, twin, person_run, batch, export, scan>>

\* PUT /api/clusters/{cluster_id}/rating
update_cluster_rating ==
    \E cluster_id \in 1..(MaxServerClusters + 1), rating \in RatingInputs :
        LET status == IF ~ValidRating(rating) THEN 400 ELSE 200
        IN  /\ http' = [op |-> "update_cluster_rating", id |-> cluster_id,
                        rating |-> rating, status |-> status]
            /\ photos' = IF status = 200
                         THEN [p \in PhotoIds |->
                                  IF photos[p].cluster_id = cluster_id
                                  THEN [photos[p] EXCEPT !.rating = rating]
                                  ELSE photos[p]]
                         ELSE photos
            /\ UNCHANGED <<embeddings, near, faces, photo_persons, clusters, cluster_seq,
                           run, refine, txn, dup, twin, person_run, batch, export, scan>>

\* POST /api/reset-selections
\* the UPDATE names is_rejected: on a table without that column execute raises
\* sqlite3.OperationalError, the request is answered 500 and nothing is written
reset_selections ==
    /\ http' = [op |-> "reset_selections", id |-> NULL, rating |-> 0,
                status |-> IF HasColumn("is_rejected") THEN 200 ELSE 500]
    /\ photos' = IF HasColumn("is_rejected")
                 THEN [p \in PhotoIds |->
                          [photos[p] EXCEPT !.is_starred = 0, !.is_rejected = 0,
                                            !.rating = 0]]
                 ELSE photos
    /\ UNCHANGED <<embeddings, near, faces, photo_persons, clusters, cluster_seq,
                   run, refine, txn, dup, twin, person_run, batch, export, scan>>

NextRating ==
    \/ update_rating
    \/ update_cluster_rating
    \/ reset_selections

SpecRating == InitRating /\ [][NextRating]_vars

\* ------------------------------------------- server.py: the export job
\* a photos row with the file it names: the source file may be gone, and has a size
ExportRows ==
    [folder : 1..MaxFolder, filename : 1..MaxName, size : 1..MaxSize,
     exists : BOOLEAN, is_starred : {0, 1}]

\* filepath is UNIQUE: folder and filename together name the file
Filepath(r) == <<r.folder, r.filename>>

\* no file at a destination path
NoFile == [path |-> <<>>, size |-> 0]

\* no entry in export_jobs
NoJob == [status |-> "absent"]

\* "ORDER BY folder, taken_at, filename", for photos taken at the same time
RECURSIVE OrderByFolderName(_)
OrderByFolderName(S) ==
    IF S = {} THEN <<>>
    ELSE LET m == CHOOSE r \in S : \A q \in S :
                      \/ r.folder < q.folder
                      \/ r.folder = q.folder /\ r.filename <= q.filename
         IN  <<m>> \o OrderByFolderName(S \ {m})

\* "SELECT ... FROM photos WHERE is_starred = 1 ORDER BY folder, taken_at, filename"
SelectedPhotos == OrderByFolderName({photos[p] : p \in {q \in PhotoIds : photos[q].is_starred = 1}})

\* "if not dest.exists(): return True", then the comparison of the sizes
should_copy(src, dest) ==
    IF dest = NoFile THEN TRUE
    ELSE src.size # dest.size

\* export_jobs is empty, the destination directory holds no file
InitExport ==
    /\ embeddings = {}
    /\ near = {}
    /\ faces = {}
    /\ photo_persons = {}
    /\ clusters = {}
    /\ cluster_seq = 0
    /\ run = NoRun
    /\ refine = NoRefine
    /\ txn = NoCall
    /\ dup = NoCall
    /\ twin = NoCall
    /\ person_run = NoCall
    /\ batch = NoCall
    /\ scan = NoCall
    /\ http = NoCall
    /\ \E n \in 0..MaxExportPhotos :
           /\ photos \in [1..n -> ExportRows]
           /\ \A p, q \in 1..n : p # q => Filepath(photos[p]) # Filepath(photos[q])
    /\ export = [pc |-> "idle", job_id |-> 0, i |-> 0, photos |-> <<>>,
                 include_manifest |-> FALSE, started |-> 0,
                 jobs |-> [j \in 1..MaxExports |-> NoJob],
                 dest |-> [n \in 1..MaxName |-> NoFile],
                 manifests |-> {}]

\* the entry of the running task in export_jobs
Job == export.jobs[export.job_id]

\* POST /api/export/copy: one export task at a time, MaxExports of them
start_export_copy ==
    /\ export.pc \in {"idle", "done"}
    /\ export.started < MaxExports
    /\ \E include_manifest \in BOOLEAN :
           IF SelectedPhotos = <<>>
           THEN /\ http' = [op |-> "start_export_copy", id |-> NULL, status |-> 400]
                /\ UNCHANGED export
           ELSE LET job_id == export.started + 1
                IN  /\ http' = [op |-> "start_export_copy", id |-> job_id,
                                status |-> 200]
                    /\ export' = [export EXCEPT !.pc = "queued",
                                                !.job_id = job_id,
                                                !.i = 0,
                                                !.photos = SelectedPhotos,
                                                !.include_manifest = include_manifest,
                                                !.started = job_id]
    /\ UNCHANGED <<db, run, refine, txn, dup, twin, person_run, batch, scan>>

\* copy_photos_task, up to the loop: the task enters its job in export_jobs
TaskRegister ==
    /\ export.pc = "queued"
    /\ export' = [export EXCEPT
           !.pc = "check",
           !.i = 1,
           !.jobs[export.job_id] =
               [status |-> "running", progress |-> 0, total |-> Len(export.photos),
                skipped |-> 0, copied |-> 0, cancelled |-> FALSE]]
    /\ UNCHANGED <<db, run, refine, txn, dup, twin, person_run, batch, scan, http>>

\* the head of the loop: the next photo, and the cancellation flag
TaskCheck ==
    /\ export.pc = "check"
    /\ export' =
           IF export.i > Len(export.photos)
           THEN [export EXCEPT !.pc = "manifest"]
           ELSE IF Job.cancelled
           THEN [export EXCEPT !.pc = "done",
                               !.jobs[export.job_id].status = "cancelled"]
           ELSE [export EXCEPT !.pc = "copy"]
    /\ UNCHANGED <<db, run, refine, txn, dup, twin, person_run, batch, scan, http>>

\* the body of the loop up to the counters: a missing source is passed over, a file
\* is copied or skipped, and shutil.copy2 may raise
TaskCopy ==
    /\ export.pc = "copy"
    /\ LET photo == export.photos[export.i]
           dest_filename == photo.filename
       IN  IF ~photo.exists
           THEN export' = [export EXCEPT !.pc = "check", !.i = export.i + 1]
           ELSE IF should_copy(photo, export.dest[dest_filename])
           THEN \E raised \in BOOLEAN :
                    export' =
                        IF raised
                        THEN [export EXCEPT !.pc = "done",
                                            !.jobs[export.job_id].status = "error"]
                        ELSE [export EXCEPT
                                 !.pc = "progress",
                                 !.dest[dest_filename] =
                                     [path |-> Filepath(photo), size |-> photo.size],
                                 !.jobs[export.job_id].copied = Job.copied + 1]
           ELSE export' = [export EXCEPT
                              !.pc = "progress",
                              !.jobs[export.job_id].skipped = Job.skipped + 1]
    /\ UNCHANGED <<db, run, refine, txn, dup, twin, person_run, batch, scan, http>>

\* the end of the body: "export_jobs[job_id]["progress"] = i + 1", i counting from 0
TaskProgress ==
    /\ export.pc = "progress"
    /\ export' = [export EXCEPT !.pc = "check",
                                !.i = export.i + 1,
                                !.jobs[export.job_id].progress = export.i]
    /\ UNCHANGED <<db, run, refine, txn, dup, twin, person_run, batch, scan, http>>

\* after the loop: manifest.json
TaskManifest ==
    /\ export.pc = "manifest"
    /\ export' = [export EXCEPT
           !.pc = "complete",
           !.manifests = IF export.include_manifest
                         THEN export.manifests \cup {export.job_id}
                         ELSE export.manifests]
    /\ UNCHANGED <<db, run, refine, txn, dup, twin, person_run, batch, scan, http>>

\* "export_jobs[job_id]["status"] = "complete""
TaskComplete ==
    /\ export.pc = "complete"
    /\ export' = [export EXCEPT !.pc = "done",
                                !.jobs[export.job_id].status = "complete"]
    /\ UNCHANGED <<db, run, refine, txn, dup, twin, person_run, batch, scan, http>>

copy_photos_task ==
    \/ TaskRegister
    \/ TaskCheck
    \/ TaskCopy
    \/ TaskProgress
    \/ TaskManifest
    \/ TaskComplete

\* GET /api/export/status/{job_id}
get_export_status ==
    /\ \E job_id \in 1..MaxExports :
           http' = [op |-> "get_export_status", id |-> job_id,
                    status |-> IF export.jobs[job_id] = NoJob THEN 404 ELSE 200]
    /\ UNCHANGED <<db, run, refine, txn, dup, twin, person_run, batch, scan, export>>

\* POST /api/export/cancel/{job_id}
cancel_export ==
    /\ \E job_id \in 1..MaxExports :
           IF export.jobs[job_id] = NoJob
           THEN /\ http' = [op |-> "cancel_export", id |-> job_id, status |-> 404]
                /\ UNCHANGED export
           ELSE /\ http' = [op |-> "cancel_export", id |-> job_id, status |-> 200]
                /\ export' = [export EXCEPT !.jobs[job_id].cancelled = TRUE]
    /\ UNCHANGED <<db, run, refine, txn, dup, twin, person_run, batch, scan>>

NextExport ==
    \/ start_export_copy
    \/ TaskRegister
    \/ TaskCheck
    \/ TaskCopy
    \/ TaskProgress
    \/ TaskManifest
    \/ TaskComplete
    \/ get_export_status
    \/ cancel_export

SpecExport == InitExport /\ [][NextExport]_vars

\* the thread pool runs a started task to its end
SpecExportFair == SpecExport /\ WF_vars(copy_photos_task)

\* ------------------------------------------- server.py: the cluster listing
\* the photos of a cluster
PhotosOfCluster(ph, cluster_id) == {p \in DOMAIN ph : ph[p].cluster_id = cluster_id}

\* the tables as a committed cluster_photos run leaves them: a clusters row for every
\* cluster id in use, with the count of its photos and one of them as representative
ClusteredTables(ph, cl) ==
    /\ \A c \in cl :
           /\ PhotosOfCluster(ph, c.id) # {}
           /\ c.photo_count = Cardinality(PhotosOfCluster(ph, c.id))
           /\ c.representative_photo_id \in PhotosOfCluster(ph, c.id)
    /\ \A p \in DOMAIN ph :
           ph[p].cluster_id # NULL => \E c \in cl : c.id = ph[p].cluster_id
    /\ \A c, d \in cl : c.id = d.id => c = d

\* the server opens a database with photos, clustered or not yet clustered, with
\* either table layout, and ratings at their default
InitClusters ==
    /\ embeddings = {}
    /\ near = {}
    /\ faces = {}
    /\ photo_persons = {}
    /\ cluster_seq = 0
    /\ run = NoRun
    /\ refine = NoRefine
    /\ txn = NoCall
    /\ dup = NoCall
    /\ twin = NoCall
    /\ person_run = NoCall
    /\ batch = NoCall
    /\ export = NoCall
    /\ scan = NoCall
    /\ http = NoCall
    /\ \E n \in 1..MaxServerPhotos :
           photos \in [1..n -> IndexerRows] \cup [1..n -> ServerRows]
    /\ clusters \in SUBSET [id : 1..MaxServerClusters, photo_count : 1..MaxServerPhotos,
                            representative_photo_id : 1..MaxServerPhotos]
    /\ ClusteredTables(photos, clusters)

\* "ORDER BY ... id ASC" of a set of rows, for photos taken at the same time
RECURSIVE OrderById(_)
OrderById(S) ==
    IF S = {} THEN <<>>
    ELSE LET m == CHOOSE r \in S : \A q \in S : r.id <= q.id
         IN  <<m>> \o OrderById(S \ {m})

\* the WHERE clause built from min_rating and unrated_only, on a photos row
MatchesFilter(row, q) ==
    /\ q.has_min_rating => row.rating >= q.min_rating
    /\ q.unrated_only => row.rating = 0

\* the rows of "clusters c JOIN photos p ON c.representative_photo_id = p.id" that
\* pass the WHERE clause
MatchingClusters(q) ==
    {c \in clusters : /\ c.representative_photo_id \in PhotoIds
                      /\ MatchesFilter(photos[c.representative_photo_id], q)}

\* the listing "if total == 0": every photo that passes the filter, as an entry
\* with cluster_id None and photo_count 1
UnclusteredListing(q) ==
    [k \in DOMAIN OrderById({[id |-> p] : p \in {r \in PhotoIds : MatchesFilter(photos[r], q)}}) |->
        [cluster_id |-> NULL, photo_count |-> 1,
         photo_id |-> OrderById({[id |-> p] : p \in {r \in PhotoIds : MatchesFilter(photos[r], q)}})[k].id]]

\* the listing of the clusters that pass the filter
ClusterListing(q) ==
    [k \in DOMAIN OrderById(MatchingClusters(q)) |->
        [cluster_id |-> OrderById(MatchingClusters(q))[k].id,
         photo_count |-> OrderById(MatchingClusters(q))[k].photo_count,
         photo_id |-> OrderById(MatchingClusters(q))[k].representative_photo_id]]

\* the query strings of a request without starred_only and rejected_only, and with
\* a page that holds every row
ClusterQueries ==
    [has_min_rating : {FALSE}, min_rating : {0}, unrated_only : BOOLEAN]
        \cup [has_min_rating : {TRUE}, min_rating : RatingInputs, unrated_only : BOOLEAN]

\* GET /api/clusters: both listings select p.is_rejected, so on a table without that
\* column execute raises sqlite3.OperationalError and the handler answers with no entry
get_clusters ==
    /\ \E q \in ClusterQueries :
           LET total == Cardinality(MatchingClusters(q))
           IN  http' = [op |-> "get_clusters", query |-> q, status |-> 200,
                        clusters |-> IF ~HasColumn("is_rejected") THEN <<>>
                                     ELSE IF total = 0 THEN UnclusteredListing(q)
                                     ELSE ClusterListing(q)]
    /\ UNCHANGED <<db, run, refine, txn, dup, twin, person_run, batch, export, scan>>

NextClusters ==
    \/ update_rating
    \/ get_clusters

SpecClusters == InitClusters /\ [][NextClusters]_vars

\* ------------------------------------------- index_photos.py: detect_faces, run after run
\* no photo has been scanned: face_count at its default, no faces row
InitScan ==
    /\ embeddings = {}
    /\ near = {}
    /\ faces = {}
    /\ photo_persons = {}
    /\ clusters = {}
    /\ cluster_seq = 0
    /\ run = NoRun
    /\ refine = NoRefine
    /\ txn = NoCall
    /\ dup = NoCall
    /\ twin = NoCall
    /\ person_run = NoCall
    /\ batch = NoCall
    /\ export = NoCall
    /\ http = NoCall
    /\ \E n \in 1..MaxScanPhotos : photos = [p \in 1..n |-> [face_count |-> 0]]
    /\ scan = [pc |-> "idle", runs |-> 0, photos_to_scan |-> {}, earlier |-> {},
               scanned |-> {}]

\* "WHERE p.id NOT IN (SELECT DISTINCT photo_id FROM faces)"
PhotosToScan == PhotoIds \ faces

\* the rows of the SELECT in id order
RECURSIVE IdOrder(_)
IdOrder(S) ==
    IF S = {} THEN <<>>
    ELSE LET m == CHOOSE p \in S : \A q \in S : p <= q
         IN  <<m>> \o IdOrder(S \ {m})

\* detect_faces(): every selected photo is handed to a worker, which returns the
\* number of faces it kept or -1 when it raised; the results are saved and committed.
\* scan records the selection and the photos scanned without error so far
detect_faces ==
    /\ scan.runs < MaxScanRuns
    /\ PhotosToScan # {}
    /\ \E counts \in [PhotosToScan -> 0..MaxFaceCount], fails \in SUBSET PhotosToScan :
           LET work_items == IdOrder(PhotosToScan)
               results == [i \in DOMAIN work_items |->
                              ProcessSinglePhoto(work_items[i], fails, counts[work_items[i]])]
               st == SaveFaceResults(results, 1, [scanned |-> {}, faces |-> {}])
           IN  /\ photos' = [p \in PhotoIds |->
                                IF p \in st.scanned
                                THEN [photos[p] EXCEPT !.face_count = counts[p]]
                                ELSE photos[p]]
               /\ faces' = faces \cup {r[1] : r \in st.faces}
               /\ scan' = [pc |-> "ran", runs |-> scan.runs + 1,
                           photos_to_scan |-> PhotosToScan,
                           earlier |-> scan.scanned,
                           scanned |-> scan.scanned \cup st.scanned]
    /\ UNCHANGED <<embeddings, near, photo_persons, clusters, cluster_seq, run, refine,
                   txn, dup, twin, person_run, batch, export, http>>

\* "if not photos_to_scan: ... return"
detect_faces_AllDetected ==
    /\ scan.runs < MaxScanRuns
    /\ PhotosToScan = {}
    /\ scan' = [scan EXCEPT !.pc = "ran", !.runs = scan.runs + 1,
                            !.photos_to_scan = {}, !.earlier = scan.scanned]
    /\ UNCHANGED <<db, run, refine, txn, dup, twin, person_run, batch, export, http>>

NextScan ==
    \/ detect_faces
    \/ detect_faces_AllDetected

SpecScan == InitScan /\ [][NextScan]_vars

\* ------------------------------------------- index_photos.py: re-clustering a curated database
\* a photos row with the columns the curator writes
CuratedRows ==
    [taken_at : Times, width : {1}, height : {1}, cluster_id : {NULL},
     is_cluster_representative : {0}, rating : {MinRating, MaxRating},
     is_starred : {0, 1}, notes : {"", "keep"}]

\* the database after indexing, embedding and face detection, with the ratings,
\* stars and notes the curator has entered through the server
InitRecluster ==
    /\ \E n \in 1..MaxPhotos : photos \in [1..n -> CuratedRows]
    /\ embeddings \in SUBSET PhotoIds
    /\ near \in SUBSET {{p, q} : p, q \in embeddings}
    /\ \A pair \in near : Cardinality(pair) = 2
    /\ faces \in SUBSET PhotoIds
    /\ photo_persons = {}
    /\ clusters = {}
    /\ cluster_seq = 0
    /\ run = NoRun
    /\ refine = NoRefine
    /\ Idle

NextRecluster ==
    \/ ClusterPersons
    \/ ClusterPhotos

SpecRecluster == InitRecluster /\ [][NextRecluster]_vars

\* ================================================================== claims
\* ------------------------------------------- about a returned stand-alone call
Returned == refine.pc = "return"
Pos == DOMAIN refine.labels
InLabel(i) == refine.labels[i]
OutLabel(i) == refine.new_labels[i]
PersonsAt(i) == refine.photo_persons[refine.photo_ids[i]]
InputClusters == Range(refine.labels) \ {NOISE}
MembersAt(l) == {i \in Pos : InLabel(i) = l}
Inconsistent(l) == \E i, j \in MembersAt(l) : PersonsAt(i) # PersonsAt(j)
Dominant(l) == LargestSet(ClusterMembers(refine.photo_ids, refine.labels, l),
                          refine.photo_persons)

\* C2: refinement never merges: photos with different non-noise input labels have
\* different output labels, and a noise photo stays noise.
C2_NeverMerges ==
    Returned =>
        \A i, j \in Pos :
            /\ InLabel(i) = NOISE => OutLabel(i) = NOISE
            /\ (InLabel(i) # NOISE /\ InLabel(j) # NOISE /\ InLabel(i) # InLabel(j))
                   => OutLabel(i) # OutLabel(j)

C2_Witness ==
    /\ Returned
    /\ \E i, j, k \in Pos :
          /\ InLabel(i) = NOISE
          /\ InLabel(j) # NOISE /\ OutLabel(j) # InLabel(j)
          /\ InLabel(k) # NOISE /\ InLabel(k) # InLabel(j)

\* C3 as stated: in an inconsistent cluster, every partition whose person-set is a
\* subset or a superset of the dominant person-set, the empty set included, keeps
\* the original label.
C3_SubsetSupersetKeepsLabel ==
    Returned =>
        \A l \in InputClusters : Inconsistent(l) =>
            \A i \in MembersAt(l) :
                (PersonsAt(i) \subseteq Dominant(l) \/ Dominant(l) \subseteq PersonsAt(i))
                    => OutLabel(i) = InLabel(i)

\* C3 amended: in an inconsistent cluster, every partition whose person-set is not
\* empty and is a subset or a superset of a dominant person-set that is not empty
\* keeps the original label; a non-dominant partition is split off when its
\* person-set or the dominant one is empty.
C3_NonEmptySubsetSupersetKeepsLabel ==
    Returned =>
        \A l \in InputClusters : Inconsistent(l) =>
            \A i \in MembersAt(l) :
                /\ ( /\ PersonsAt(i) # {}
                     /\ Dominant(l) # {}
                     /\ (PersonsAt(i) \subseteq Dominant(l) \/ Dominant(l) \subseteq PersonsAt(i)) )
                       => OutLabel(i) = InLabel(i)
                /\ ( /\ PersonsAt(i) # Dominant(l)
                     /\ (PersonsAt(i) = {} \/ Dominant(l) = {}) )
                       => OutLabel(i) # InLabel(i)

C3_Witness ==
    /\ Returned
    /\ \E l \in InputClusters : \E i, j \in MembersAt(l) :
          /\ Dominant(l) # {}
          /\ PersonsAt(i) # Dominant(l) /\ Dominant(l) \subseteq PersonsAt(i)
          /\ OutLabel(i) = l
          /\ OutLabel(j) # l

\* C5: a cluster of more than one photo whose members all have the same person-set
\* is left untouched: every member's output label is its input label.
C5_ConsistentClusterUntouched ==
    Returned =>
        \A l \in InputClusters :
            (Cardinality(MembersAt(l)) > 1 /\ ~Inconsistent(l))
                => \A i \in MembersAt(l) : OutLabel(i) = InLabel(i)

C5_Witness ==
    /\ Returned
    /\ \E l, m \in InputClusters :
          /\ Cardinality(MembersAt(l)) > 1 /\ ~Inconsistent(l)
          /\ \E i \in MembersAt(l) : PersonsAt(i) # {}
          /\ \E j \in MembersAt(m) : OutLabel(j) # InLabel(j)

\* C6: a split-off partition gets a brand-new label: one that is no input label, that
\* the whole partition shares, and that no other split-off partition receives.
C6_SplitGetsBrandNewLabel ==
    Returned =>
        \A i \in Pos : OutLabel(i) # InLabel(i) =>
            /\ OutLabel(i) \notin Range(refine.labels)
            /\ \A j \in Pos :
                  (OutLabel(j) = OutLabel(i))
                      <=> (InLabel(j) = InLabel(i) /\ PersonsAt(j) = PersonsAt(i))

C6_Witness ==
    /\ Returned
    /\ \E i, j \in Pos :
          /\ OutLabel(i) # InLabel(i)
          /\ OutLabel(j) # InLabel(j)
          /\ InLabel(i) # InLabel(j)

\* ----------------------------------------- about a cluster_photos run just over
Cid(p) == photos[p].cluster_id
Area(p) == photos[p].width * photos[p].height
ClusterOf(c) == {p \in PhotoIds : Cid(p) = c.id}
RunPos == DOMAIN run.photo_ids
PersonsOf(i) == get_photo_persons(photo_persons, run.photo_ids[i])
VisualCluster(l) == {i \in RunPos : run.labels[i] = l}
Partition(l, ps) == {i \in VisualCluster(l) : PersonsOf(i) = ps}
\* the person-sets whose partitions tie for the largest size in visual cluster l
Tied(l) ==
    LET sets == {PersonsOf(i) : i \in VisualCluster(l)}
    IN  IF \E ps \in sets : \A qs \in sets \ {ps} :
               Cardinality(Partition(l, qs)) < Cardinality(Partition(l, ps))
        THEN {}
        ELSE {ps \in sets : \A qs \in sets :
                 Cardinality(Partition(l, qs)) <= Cardinality(Partition(l, ps))}
TiedPos(l) == UNION {Partition(l, ps) : ps \in Tied(l)}
KeepsLabel(l, ps) == \A i \in Partition(l, ps) : run.refined[i] = l

RECURSIVE SumPhotoCount(_)
SumPhotoCount(rows) ==
    IF rows = {} THEN 0
    ELSE LET c == CHOOSE c \in rows : TRUE
         IN  c.photo_count + SumPhotoCount(rows \ {c})

\* C1 as stated: after a run that found embeddings, every photo of the photos table
\* has a cluster_id that is not NULL and that is the id of exactly one clusters row.
C1_EveryPhotoClustered ==
    (run.done /\ run.photo_ids # <<>>) =>
        \A p \in PhotoIds :
            Cid(p) # NULL /\ Cardinality({c \in clusters : c.id = Cid(p)}) = 1

\* C1 amended: after a run, every photo that has an embedding has a cluster_id that
\* is not NULL and that is the id of exactly one clusters row; a photo without an
\* embedding has cluster_id NULL.
C1_EveryEmbeddedPhotoClustered ==
    run.done =>
        /\ \A p \in embeddings :
              Cid(p) # NULL /\ Cardinality({c \in clusters : c.id = Cid(p)}) = 1
        /\ \A p \in PhotoIds \ embeddings : Cid(p) = NULL

C1_Witness ==
    /\ run.done
    /\ embeddings # {}
    /\ PhotoIds \ embeddings # {}
    /\ \A p \in embeddings : Cid(p) # NULL

C7_DifferentPeopleSplit ==
    run.done =>
        \A i, j \in RunPos :
            ( /\ i # j
              /\ VisualCluster(run.labels[i]) = {i, j}
              /\ \E a, b \in Persons : a # b /\ PersonsOf(i) = {a} /\ PersonsOf(j) = {b} )
                => Cid(run.photo_ids[i]) # Cid(run.photo_ids[j])

C7_Witness ==
    /\ run.done
    /\ \E i, j \in RunPos :
          /\ i # j
          /\ VisualCluster(run.labels[i]) = {i, j}
          /\ \E a, b \in Persons : a # b /\ PersonsOf(i) = {a} /\ PersonsOf(j) = {b}
          /\ Cid(run.photo_ids[i]) \notin {NULL, Cid(run.photo_ids[j])}

\* C8: after a run, every clusters row has exactly one representative: the one photo
\* of the cluster flagged is_cluster_representative, which is the row's
\* representative_photo_id; and no two rows share an id.
C8_OneRepresentative ==
    run.done =>
        /\ \A c \in clusters :
              {p \in ClusterOf(c) : photos[p].is_cluster_representative = 1}
                  = {c.representative_photo_id}
        /\ \A c, d \in clusters : c.id = d.id => c = d

C8_Witness ==
    /\ run.done
    /\ \E c \in clusters :
          /\ Cardinality(ClusterOf(c)) = 2
          /\ \E p \in ClusterOf(c) : p < c.representative_photo_id

\* C9: after a run, each row's photo_count is the number of photos with that
\* cluster_id, and the counts sum to the number of photos the run loaded.
C9_PhotoCount ==
    run.done =>
        /\ \A c \in clusters : c.photo_count = Cardinality(ClusterOf(c))
        /\ SumPhotoCount(clusters) = Len(run.photo_ids)

C9_Witness ==
    /\ run.done
    /\ Cardinality(clusters) = 2
    /\ \A c \in clusters : c.id > 2

\* C10 as stated: the representative of a multi-photo cluster has the largest pixel
\* area, and the earliest timestamp among the members of that area.
C10_AreaBeforeTimestamp ==
    run.done =>
        \A c \in clusters : Cardinality(ClusterOf(c)) > 1 =>
            \A m \in ClusterOf(c) :
                /\ Area(m) <= Area(c.representative_photo_id)
                /\ Area(m) = Area(c.representative_photo_id)
                       => photos[c.representative_photo_id].taken_at <= photos[m].taken_at

\* C10 amended: the representative of a multi-photo cluster has the earliest
\* timestamp (a missing timestamp counts as the earliest), and the largest pixel
\* area among the members of that timestamp.
C10_TimestampBeforeArea ==
    run.done =>
        \A c \in clusters : Cardinality(ClusterOf(c)) > 1 =>
            \A m \in ClusterOf(c) :
                /\ photos[c.representative_photo_id].taken_at <= photos[m].taken_at
                /\ photos[m].taken_at = photos[c.representative_photo_id].taken_at
                       => Area(m) <= Area(c.representative_photo_id)

C10_Witness ==
    /\ run.done
    /\ \E c \in clusters : \E m \in ClusterOf(c) :
          /\ photos[c.representative_photo_id].taken_at < photos[m].taken_at
          /\ Area(c.representative_photo_id) < Area(m)

C12_NoiseBecomesSingleton ==
    [][(run'.done /\ run'.photo_ids # <<>>) =>
          \A i \in DOMAIN run'.photo_ids : run'.refined[i] = NOISE =>
              LET p == run'.photo_ids[i]
                  cid == photos'[p].cluster_id
              IN  /\ cid # NULL
                  /\ cid > cluster_seq
                  /\ \A c \in clusters : c.id # cid
                  /\ \E c \in clusters' :
                        /\ c.id = cid
                        /\ c.photo_count = 1
                        /\ c.representative_photo_id = p
                  /\ photos'[p].is_cluster_representative = 1
                  /\ \A q \in DOMAIN photos' : q # p => photos'[q].cluster_id # cid]_vars

C12_Witness ==
    /\ run.done
    /\ Len(run.photo_ids) = 2
    /\ run.labels = <<NOISE, NOISE>>
    /\ cluster_seq > 2
    /\ {1, 2} \in near

\* ------------------------------------------ about the committed tables
\* the stored assignment is complete: every cluster_id references a clusters row,
\* and every clusters row counts its members and names one of them, flagged, as
\* its representative
CompleteAssignment ==
    /\ \A p \in PhotoIds : Cid(p) # NULL => \E c \in clusters : c.id = Cid(p)
    /\ \A c \in clusters :
          /\ c.photo_count = Cardinality(ClusterOf(c))
          /\ c.photo_count >= 1
          /\ c.representative_photo_id \in ClusterOf(c)
          /\ photos[c.representative_photo_id].is_cluster_representative = 1

StoredAssignment == <<[p \in PhotoIds |-> <<Cid(p), photos[p].is_cluster_representative>>],
                      clusters>>

\* the step is the conn.commit() of a run / the failure of a run in progress
CommitStep == InTxn /\ run'.done
FailStep == InTxn /\ txn'.pc = "failed"

\* the step leaves the stored assignment of every photo and the clusters table alone
AssignmentKept ==
    /\ clusters' = clusters
    /\ \A p \in PhotoIds :
          /\ photos'[p].cluster_id = Cid(p)
          /\ photos'[p].is_cluster_representative = photos[p].is_cluster_representative

\* the step replaces the stored assignment by the whole result of the run
AssignmentReplaced ==
    LET st == Persist(photos, cluster_seq, txn.photo_ids, txn.refined, txn.tie)
    IN  /\ photos' = st.photos
        /\ clusters' = st.clusters

\* C13: a clustering run is atomic for a reader of the committed tables: they always
\* hold a complete assignment; the commit of a run replaces the old assignment by
\* the whole new one; every other step, the statements of a run in progress and
\* the failure of a run after its DELETE included, leaves the committed assignment
\* as it was.
C13_RunIsAtomic ==
    /\ []CompleteAssignment
    /\ [][IF CommitStep THEN AssignmentReplaced ELSE AssignmentKept]_vars
    /\ [][FailStep => StoredAssignment' = StoredAssignment]_vars

C13_Witness ==
    /\ txn.pc = "failed"
    /\ clusters # {}
    /\ txn.st.clusters # clusters
    /\ \E c \in txn.st.clusters : c.photo_count = 0

\* ------------------------------- about a returned call of find_near_duplicates
DupReturned == dup.pc = "return"
DupIds == DOMAIN dup.rows
Groups == DOMAIN dup.duplicate_groups
Members(g) == Range(dup.duplicate_groups[g])
GroupsOf(p) == {g \in Groups : p \in Members(g)}
HasHash(p) == ~dup.rows[p].is_null /\ dup.rows[p].text # <<>>
SameHash(p, q) == HasHash(p) /\ HasHash(q) /\ dup.rows[p].text = dup.rows[q].text
Hamming(a, b) == Cardinality({i \in DOMAIN a : a[i] # b[i]})
Close(p, q) ==
    HasHash(p) /\ HasHash(q) /\ Hamming(dup.rows[p].text, dup.rows[q].text) <= DHASH_THRESHOLD

\* C14 as stated, already for the photos that have a hash: the returned groups are
\* pairwise disjoint, and every such photo is in exactly one of them, one that
\* matches no other photo in a group of its own.
C14_GroupsPartitionAllPhotos ==
    DupReturned =>
        /\ \A g, h \in Groups : g # h => Members(g) \cap Members(h) = {}
        /\ \A p \in DupIds : HasHash(p) => Cardinality(GroupsOf(p)) = 1

\* C14 amended: the returned groups are pairwise disjoint sets of photos of the
\* store, each of two or more photos listed once; a photo is in a group exactly
\* when it has a hash that another photo has too, and then in one group only.
C14_GroupsDisjointNoSingletons ==
    DupReturned =>
        /\ \A g, h \in Groups : g # h => Members(g) \cap Members(h) = {}
        /\ \A g \in Groups :
              /\ Members(g) \subseteq DupIds
              /\ Cardinality(Members(g)) = Len(dup.duplicate_groups[g])
              /\ Cardinality(Members(g)) >= 2
        /\ \A p \in DupIds :
              /\ Cardinality(GroupsOf(p)) <= 1
              /\ GroupsOf(p) # {} <=> \E q \in DupIds \ {p} : SameHash(p, q)

C14_Witness ==
    /\ DupReturned
    /\ Len(dup.duplicate_groups) = 1
    /\ \E p, q \in DupIds : HasHash(p) /\ GroupsOf(p) = {} /\ GroupsOf(q) # {}

\* C15: two photos whose hashes are at Hamming distance <= DHASH_THRESHOLD are in
\* the same returned group, and so are the ends of a chain of two such pairs.
C15_WithinThresholdSameGroup ==
    DupReturned =>
        \A p, q, r \in DupIds :
            /\ (p # q /\ Close(p, q)) => GroupsOf(p) \cap GroupsOf(q) # {}
            /\ (p # q /\ q # r /\ p # r /\ Close(p, q) /\ Close(q, r))
                   => GroupsOf(p) \cap GroupsOf(r) # {}

\* C16 as stated: a photo whose hash is NULL or the empty string shares no group
\* with another photo and is reported as a group of size 1.
C16_MissingHashIsSingletonGroup ==
    DupReturned =>
        \A p \in DupIds : ~HasHash(p) =>
            /\ \A g \in GroupsOf(p) : Members(g) = {p}
            /\ GroupsOf(p) # {}

\* C16 amended: a photo whose hash is NULL or the empty string is in no returned
\* group at all: not with another photo, not with another photo whose hash is
\* missing too, and not in a group of its own.
C16_MissingHashInNoGroup ==
    DupReturned => \A p \in DupIds : ~HasHash(p) => GroupsOf(p) = {}

C16_Witness ==
    /\ DupReturned
    /\ \E p, q, r \in DupIds :
          /\ p # q
          /\ dup.rows[p] = [is_null |-> FALSE, text |-> <<>>]
          /\ dup.rows[q] = dup.rows[p]
          /\ dup.rows[r].is_null
    /\ dup.duplicate_groups = <<>>

\* C17: with zero embeddings in the store a clustering run returns without raising
\* and with an empty result: it loaded no photo, the clusters table is empty, and
\* no photo has a cluster_id or is flagged as a representative.
C17_NoEmbeddingsEmptyResult ==
    (run.done /\ embeddings = {}) =>
        /\ run.photo_ids = <<>>
        /\ clusters = {}
        /\ \A p \in PhotoIds : Cid(p) = NULL /\ photos[p].is_cluster_representative = 0

C17_Witness ==
    /\ run.done
    /\ embeddings = {}
    /\ Len(photos) = MaxPhotos

\* C18: two runs of cluster_photos over the same photos, embeddings and person-sets
\* that differ only in the photos' timestamps store the same partition of the
\* photo ids into clusters.
C18_PartitionIgnoresTimestamps ==
    twin.pc = "return" => twin.partition = twin.partition_2

\* ----------------------------------- about a returned call of cluster_persons
FaceIds == DOMAIN person_run.faces
PersonOf(f) == person_run.faces[f].person_id
FacesOf(r) == {f \in FaceIds : PersonOf(f) = r.id}

\* C19: after cluster_persons completes, every face (each has an embedding) is
\* assigned exactly one person, a row of persons; and the thumbnail_face_id of every
\* person is one of that person's faces, of the largest bounding-box area among them.
C19_FacesAssignedLargestThumbnail ==
    person_run.pc = "return" =>
        /\ \A f \in FaceIds :
              /\ PersonOf(f) # NULL
              /\ Cardinality({r \in person_run.persons : r.id = PersonOf(f)}) = 1
        /\ \A r \in person_run.persons :
              /\ r.thumbnail_face_id \in FacesOf(r)
              /\ \A g \in FacesOf(r) :
                    FaceArea(person_run.faces[g])
                        <= FaceArea(person_run.faces[r.thumbnail_face_id])

C19_Witness ==
    /\ person_run.pc = "return"
    /\ person_run.person_seq > Cardinality(person_run.persons)
    /\ \E r \in person_run.persons : \E g \in FacesOf(r) :
          /\ g < r.thumbnail_face_id
          /\ FaceArea(person_run.faces[g]) < FaceArea(person_run.faces[r.thumbnail_face_id])

OutOfRangeRequest ==
    http'.op \in {"update_rating", "update_cluster_rating"} /\ ~(http'.rating \in MinRating..MaxRating)
\* the step answers update_rating for an id no photo has, with a rating in range
UnknownPhotoRequest ==
    http'.op = "update_rating" /\ http'.rating \in MinRating..MaxRating /\ ~(http'.id \in PhotoIds)
\* the step answers with the status and leaves every photo as it was
Answered(status) == http'.status = status /\ photos' = photos

\* C21: under any sequence of update_rating, update_cluster_rating and
\* reset_selections requests every photo's rating is an integer in 0..5; a request
\* whose rating is outside 0..5 is answered 400 and changes no photo; and
\* update_rating for an unknown photo id with a rating in range is answered 404 and
\* changes no photo.
C21_RatingInRange ==
    /\ [](\A p \in PhotoIds : photos[p].rating \in MinRating..MaxRating)
    /\ [][IF OutOfRangeRequest THEN Answered(400)
          ELSE IF UnknownPhotoRequest THEN Answered(404)
          ELSE TRUE]_vars

C21_Witness ==
    /\ http # NoCall
    /\ http.op = "update_rating"
    /\ http.status = 404
    /\ \E p, q \in PhotoIds : photos[p].rating = MaxRating /\ photos[q].rating = 1

\* ------------------------------------------- about an export job
\* cancel_export has succeeded for the job while its status was "running"
CancelledRunning(j) ==
    /\ export.jobs[j] # NoJob
    /\ export.jobs[j].status = "running"
    /\ export.jobs[j].cancelled
\* the step neither completes the job nor writes its manifest.json
NotCompleted(j) ==
    /\ export'.jobs[j].status # "complete"
    /\ j \in export'.manifests => j \in export.manifests

\* C22: whenever cancel_export succeeds for a job whose status is "running", the
\* job eventually reaches status "cancelled", never "complete", and no
\* manifest.json is written for it.
C22_CancelReachesCancelled ==
    /\ [][\A j \in 1..MaxExports : CancelledRunning(j) => NotCompleted(j)]_vars
    /\ \A j \in 1..MaxExports :
           CancelledRunning(j) ~> (export.jobs[j].status = "cancelled")

\* the jobs that export_jobs holds
KnownJobs == {j \in 1..MaxExports : export.jobs[j] # NoJob}
\* the jobs that have reached status "complete"
CompleteJobs == {j \in KnownJobs : export.jobs[j].status = "complete"}
\* the selected photos whose source file exists
ExistingSources == {r \in Range(SelectedPhotos) : r.exists}
\* the destination directory holds a file with the contents of the photo
Exported(r) == \E n \in 1..MaxName : export.dest[n].path = Filepath(r)

\* C23: when two selected photos from different folders have the same filename, a
\* completed export leaves the contents of both in the destination.
C23_CollidingFilesBothExported ==
    CompleteJobs # {} =>
        \A a, b \in ExistingSources :
            (a.folder # b.folder /\ a.filename = b.filename) => (Exported(a) /\ Exported(b))

\* C24: a second export of the same selected photos to the same destination, the
\* sources unchanged and the first export complete, copies no file and counts
\* every existing source as skipped.
C24_SecondExportCopiesNothing ==
    CompleteJobs = {1, 2} =>
        /\ export.jobs[2].copied = 0
        /\ export.jobs[2].skipped = Cardinality(ExistingSources)

\* C27: get_export_status and cancel_export, called with a job id that
\* start_export_copy has returned, never answer 404.
C27_ReturnedJobIsKnown ==
    (http # NoCall /\ http.op \in {"get_export_status", "cancel_export"} /\ http.id <= export.started)
        => http.status # 404

\* C28: in every state of an export job progress <= total and
\* copied + skipped <= total, and when the status is "complete" progress = total
\* and copied + skipped = total.
C28_CountersReachTotal ==
    \A j \in KnownJobs :
        LET job == export.jobs[j]
        IN  /\ job.progress <= job.total
            /\ job.copied + job.skipped <= job.total
            /\ job.status = "complete" =>
                   (job.progress = job.total /\ job.copied + job.skipped = job.total)

\* ------------------------------------------- about a cluster listing
\* the last request answered was get_clusters
Listed == http # NoCall /\ http.op = "get_clusters"
\* the entry carries the id of an existing cluster and that cluster's photo_count
NamesCluster(e) ==
    \E c \in clusters : e.cluster_id = c.id /\ e.photo_count = c.photo_count

\* C25: whenever the clusters table is non-empty, every entry get_clusters returns
\* carries the id of an existing cluster and that cluster's photo_count; the
\* per-photo listing with cluster_id None is returned only if no clusters exist.
C25_FallbackOnlyWithoutClusters ==
    (Listed /\ clusters # {}) => \A e \in Range(http.clusters) : NamesCluster(e)

\* C26: a photo that was scanned without error in an earlier detect_faces run,
\* including one in which zero faces were found, is not selected for scanning in a
\* later run.
C26_ScannedPhotosNotRescanned ==
    scan.pc = "ran" => scan.photos_to_scan \cap scan.earlier = {}

\* ------------------------------------------- about the curator's columns
\* the step leaves rating, is_starred and notes of every photo as they were
CurationKept ==
    /\ DOMAIN photos' = DOMAIN photos
    /\ \A p \in PhotoIds :
           /\ photos'[p].rating = photos[p].rating
           /\ photos'[p].is_starred = photos[p].is_starred
           /\ photos'[p].notes = photos[p].notes

\* C29: cluster_photos and cluster_persons leave rating, is_starred and notes of
\* every photo as they were, whatever cluster the photo is moved to.
C29_ReclusterKeepsCuration == [][CurationKept]_vars

\* a rated, starred and annotated photo has been moved to a cluster of a second
\* cluster_photos run, after cluster_persons has run
C29_Witness ==
    /\ run.done
    /\ photo_persons # {}
    /\ \E p \in PhotoIds :
           /\ photos[p].rating = MaxRating
           /\ photos[p].is_starred = 1
           /\ photos[p].notes = "keep"
           /\ photos[p].cluster_id > Len(photos)

\* ------------------------------------------- about the person-sets of a final cluster
\* two photos of one final cluster whose person-sets are non-empty and disjoint
DisjointPair(i, j) ==
    /\ OutLabel(i) = OutLabel(j)
    /\ OutLabel(i) # NOISE
    /\ PersonsAt(i) # {}
    /\ PersonsAt(j) # {}
    /\ PersonsAt(i) \cap PersonsAt(j) = {}
\* a photo of the same final cluster shows the people of both
CoveredPair(i, j) ==
    \E k \in Pos : /\ OutLabel(k) = OutLabel(i)
                   /\ (PersonsAt(i) \cup PersonsAt(j)) \subseteq PersonsAt(k)

\* C30 as stated: after refinement no final cluster contains two photos whose
\* person-sets are both non-empty and disjoint.
C30_DisjointNeverShareCluster ==
    Returned => \A i, j \in Pos : ~DisjointPair(i, j)

\* C30, amended: two photos whose person-sets are non-empty and disjoint share a
\* final cluster only if that cluster also holds a photo whose person-set includes
\* both of theirs.
C30_DisjointShareOnlyUnderSuperset ==
    Returned => \A i, j \in Pos : DisjointPair(i, j) => CoveredPair(i, j)

\* a call has kept two photos of disjoint person-sets together and split another
\* photo off
C30_Witness ==
    /\ Returned
    /\ \E i, j \in Pos : DisjointPair(i, j)
    /\ \E k \in Pos : OutLabel(k) # InLabel(k)

====
